---- MODULE Spec2Model ----
(***************************************************************************)
(* CrowdBT (src/crowdbt.py): estimate_bt_scores and estimate_bt_ranks.     *)
(*                                                                         *)
(* Numbers.  Log-scores (the optimizer's variables) live on an integer    *)
(* grid: the grid value k is the float k.0, so 1 is the 1.0 of the source. *)
(* Every other real is an exact rational <<n, d>> with d > 0 in lowest    *)
(* terms.  math.exp is the exact power function of the base EBase (e      *)
(* rounded to an integer, so that TLC's integers hold every value): it is  *)
(* positive, strictly increasing and turns sums into products, which is    *)
(* all the order structure of exp.  A value of math.log10 is kept as the   *)
(* record [antilog |-> r] of the rational r it is the logarithm of; adding  *)
(* two logarithms multiplies the antilogs and comparing two compares the   *)
(* antilogs.  A sum(...) over a generator is the bag of its summands.      *)
(***************************************************************************)
EXTENDS Integers, Sequences, FiniteSets, Bags, TLC

VARIABLES
  graphs,                   \* argument: sequence (by annotator) of sets of edges <<j, i>>
  standardize_bt_scores,    \* argument of estimate_bt_scores
  preference_accuracy,      \* argument, in tenths (9 is 0.9)
  regularization_strength,  \* argument, in tenths (5 is 0.5)
  api,                      \* "scores": estimate_bt_scores, "ranks": estimate_bt_ranks
  pc,                       \* position in the call
  err,                      \* the exception the call raised, "none" if none
  num_vertices,             \* local of estimate_bt_scores
  initial_guess,            \* local of estimate_bt_scores
  shape,                    \* number of entries of the optimizer's current iterate xk
  nit,                      \* the optimizer's iteration counter k
  x,                        \* OptimizeResult.x, once optimize.minimize has returned
  success,                  \* OptimizeResult.success, once optimize.minimize has returned
  s_arg,                    \* the argument s of the last call of negative_log_likelihood
  fval,                     \* the value that call returned
  raw_bt_scores,            \* local of estimate_bt_scores
  returned,                 \* which value the call returned: "none", "raw", "zscore", "ranks"
  zscores,                  \* the value of stats.zscore(raw_bt_scores), when returned
  ranks,                    \* the value estimate_bt_ranks returned
  memo,                     \* what optimize.minimize answered, by its arguments
  tie,                      \* how this build's argsort orders equal keys, by array length
  calls,                    \* number of calls the caller has started
  args,                     \* the caller's copy of the arguments, taken at the call
  history                   \* the completed calls: arguments and outcome

vars == <<graphs, standardize_bt_scores, preference_accuracy, regularization_strength,
          api, pc, err, num_vertices, initial_guess, shape, nit, x, success, s_arg, fval, raw_bt_scores,
          returned, zscores, ranks, memo, tie, calls, args, history>>

----------------------------------------------------------------------------
(* Bounds of the model. *)

\* Object indices of the pipeline's corpora run over -1..MaxIdx.
MaxIdx == 1

\* The optimizer's answer has its coordinates in -1..GridMax.
GridMax == 1

\* The objective is evaluated at score vectors with coordinates in -1..ObjGridMax.
ObjGridMax == 2

----------------------------------------------------------------------------
(* Exact arithmetic. *)

Abs(n) == IF n < 0 THEN 0 - n ELSE n

RECURSIVE GCD(_, _)
GCD(a, b) == IF b = 0 THEN a ELSE GCD(b, a % b)

Rat(n, d) == LET g == GCD(Abs(n), d) IN <<n \div g, d \div g>>

RatAdd(a, b) == Rat(a[1] * b[2] + b[1] * a[2], a[2] * b[2])

RatSub(a, b) == Rat(a[1] * b[2] - b[1] * a[2], a[2] * b[2])

RatMul(a, b) == Rat(a[1] * b[1], a[2] * b[2])

RatDiv(a, b) == Rat(a[1] * b[2], a[2] * b[1])

RatLess(a, b) == a[1] * b[2] < b[1] * a[2]

RatNeg(a) == <<0 - a[1], a[2]>>

RECURSIVE Pow(_, _)
Pow(b, k) == IF k = 0 THEN 1 ELSE b * Pow(b, k - 1)

RECURSIVE RatSum(_)
RatSum(s) == IF s = <<>> THEN <<0, 1>> ELSE RatAdd(Head(s), RatSum(Tail(s)))

\* The bag of the values of the function f (a sum's summands, by occurrence).
BagOf(f) ==
  [v \in {f[o] : o \in DOMAIN f} |-> Cardinality({o \in DOMAIN f : f[o] = v})]

RECURSIVE BagSize(_)
BagSize(b) ==
  IF DOMAIN b = {} THEN 0
  ELSE LET v == CHOOSE w \in DOMAIN b : TRUE
       IN b[v] + BagSize([w \in DOMAIN b \ {v} |-> b[w]])

----------------------------------------------------------------------------
(* math.exp, math.log10 and Python indexing. *)

EBase == 3

exp(s) == IF s >= 0 THEN <<Pow(EBase, s), 1>> ELSE <<1, Pow(EBase, 0 - s)>>

log10(r) == [antilog |-> r]

LogAdd(a, b) == [antilog |-> RatMul(a.antilog, b.antilog)]

LogLess(a, b) == RatLess(a.antilog, b.antilog)

\* s[i] for a Python sequence s (1-based here) and a Python index i:
\* a negative index counts from the end, anything else out of range raises.
InRange(s, i) == (0 - Len(s)) <= i /\ i < Len(s)

Item(s, i) == IF i >= 0 THEN s[i + 1] ELSE s[Len(s) + i + 1]

----------------------------------------------------------------------------
(* estimate_bt_scores: the objective. *)

\* the score (s0) of the virtual object node
s_vo == 1

bt(s_i, s_j) == RatDiv(exp(s_i), RatAdd(exp(s_i), exp(s_j)))

\* One (annotator, edge) pair per step of `for edges in graphs for j, i in edges`.
EdgeOccurrences(g) == UNION {{<<k, e>> : e \in g[k]} : k \in DOMAIN g}

\* LTerm with the roles of the two objects exchanged: j taken as the preferred one.
LTermSwapped(h, s_i, s_j) ==
  log10(RatAdd(RatMul(<<h, 10>>, bt(s_j, s_i)),
               RatMul(<<10 - h, 10>>, bt(s_i, s_j))))

\* The summand of L for the edge (j, i): h in tenths, so the rational is over 10.
LTerm(h, s_i, s_j) ==
  log10(RatAdd(RatMul(<<h, 10>>, bt(s_i, s_j)),
               RatMul(<<10 - h, 10>>, bt(s_j, s_i))))

\* RTerm with the virtual object at log-score 0.
RTermAnchorZero(s_i) == LogAdd(log10(bt(0, s_i)), log10(bt(s_i, 0)))

\* The summand of R for object i.
RTerm(s_i) == LogAdd(log10(bt(s_vo, s_i)), log10(bt(s_i, s_vo)))

\* The summands by their arguments, computed once: every log-score the model
\* uses, every accuracy in tenths.
LogScores == (0 - 1) .. (IF GridMax > ObjGridMax THEN GridMax ELSE ObjGridMax)

LTermOf == [h \in 0 .. 10, s_i \in LogScores, s_j \in LogScores |-> LTerm(h, s_i, s_j)]

RTermOf == [s_i \in LogScores |-> RTerm(s_i)]

negative_log_likelihood(g, h, l, s) ==
  IF \E o \in EdgeOccurrences(g) : ~InRange(s, o[2][1]) \/ ~InRange(s, o[2][2])
  THEN [err |-> "IndexError", L |-> <<>>, R |-> <<>>, l |-> l]
  ELSE [err |-> "none",
        L |-> BagOf([o \in EdgeOccurrences(g) |->
                       LTermOf[h, Item(s, o[2][2]), Item(s, o[2][1])]]),
        R |-> BagOf([i \in 0 .. (Len(s) - 1) |-> RTermOf[Item(s, i)]]),
        l |-> l]

----------------------------------------------------------------------------
(* estimate_bt_scores: sizing, the optimizer, the output. *)

MaxOf(S) == CHOOSE m \in S : \A n \in S : n <= m

HasEdges(g) == EdgeOccurrences(g) # {}

\* NumVertices as the number of distinct objects that occur in an edge.
NumVerticesDistinct(g) ==
  Cardinality(UNION {{o[2][1], o[2][2]} : o \in EdgeOccurrences(g)})

\* 1 + max(max(i, j) for edges in graphs for j, i in edges)
NumVertices(g) ==
  1 + MaxOf({MaxOf({o[2][1], o[2][2]}) : o \in EdgeOccurrences(g)})

\* InitialGuess as [0.0] * num_vertices.
InitialGuessZero(n) == IF n <= 0 THEN <<>> ELSE [k \in 1 .. n |-> 0]

\* InitialGuess warm-started from the answer of an earlier call of the process.
InitialGuessWarm(n) ==
  IF \E m \in memo : Len(m.x) = n
  THEN (CHOOSE m \in memo : Len(m.x) = n).x
  ELSE IF n <= 0 THEN <<>> ELSE [k \in 1 .. n |-> 1]

\* [1.0] * num_vertices: empty when num_vertices <= 0
InitialGuess(n) == IF n <= 0 THEN <<>> ELSE [k \in 1 .. n |-> 1]

\* options={'maxiter': 99}
maxiter == 99

\* The optimizer iterates while it has not converged and k < maxiter.
MayIterate(k) == k < maxiter

\* OptimizeResult.success: the cap was not what stopped the run.
Success(k) == k < maxiter

\* ResultError of a caller that checks OptimizeResult.success.
ResultErrorStrict(ok) == IF ok THEN "none" ELSE "OptimizationNonConvergence"

\* What the call does with the OptimizeResult: `.x` is read, `.success` is not,
\* so nothing is raised whatever success says.
ResultError(ok) == "none"

Grid == (0 - 1) .. GridMax

Vectors(n) == IF n <= 0 THEN {<<>>} ELSE [1 .. n -> Grid]

\* What optimize.minimize is a function of: fun (its closure), x0 and the options.
MinimizeKey == <<graphs, preference_accuracy, regularization_strength,
                 initial_guess, maxiter>>

\* np.exp(...), elementwise
NpExp(v) == [k \in 1 .. Len(v) |-> exp(v[k])]

Sign(n) == IF n < 0 THEN 0 - 1 ELSE IF n > 0 THEN 1 ELSE 0

\* stats.zscore(a): (a - mean) / std with the population std.  A z-score is kept
\* exactly, as its sign and its square; 0/0 is nan.
zscore(a) ==
  LET n    == Len(a)
      mean == RatDiv(RatSum(a), <<n, 1>>)
      dev  == [k \in 1 .. n |-> RatSub(a[k], mean)]
      var  == RatDiv(RatSum([k \in 1 .. n |-> RatMul(dev[k], dev[k])]), <<n, 1>>)
  IN  [k \in 1 .. n |->
         IF var[1] = 0
         THEN [nan |-> TRUE, sgn |-> 0, sq |-> <<0, 1>>]
         ELSE [nan |-> FALSE, sgn |-> Sign(dev[k][1]),
               sq |-> RatDiv(RatMul(dev[k], dev[k]), var)]]

----------------------------------------------------------------------------
(* estimate_bt_ranks: the double argsort. *)

Perms(n) == {p \in [1 .. n -> 1 .. n] : \A a, b \in 1 .. n : a # b => p[a] # p[b]}

Identity(n) == [k \in 1 .. n |-> k]

HasTies(v) == \E a, b \in 1 .. Len(v) : a # b /\ v[a] = v[b]

\* a.argsort() of numpy with the default kind: the indices (0-based) that sort a.
\* The default kind is not a stable sort, so the order of equal keys is the
\* build's: prio[k] is the place the build gives element k among its equals.
ArgSort(a, prio) ==
  LET n == Len(a)
      Precedes(j, k) == RatLess(a[j], a[k]) \/ (a[j] = a[k] /\ prio[j] < prio[k])
      Place(k) == Cardinality({j \in 1 .. n : Precedes(j, k)})
  IN  [r \in 1 .. n |-> (CHOOSE k \in 1 .. n : Place(k) = r - 1) - 1]

\* The integer i as a key of ArgSort.
Key(i) == <<i, 1>>

\* RanksOf as competition ranks: one plus the number of greater scores.
RanksOfCompetition(scores, prio) ==
  [k \in 1 .. Len(scores) |->
     1 + Cardinality({j \in 1 .. Len(scores) : RatLess(scores[k], scores[j])})]

\* np.add((-bt_scores).argsort().argsort(), 1)
RanksOf(scores, prio) ==
  LET n      == Len(scores)
      neg    == [k \in 1 .. n |-> RatNeg(scores[k])]
      order  == ArgSort(neg, prio)
      places == ArgSort([k \in 1 .. n |-> Key(order[k])], Identity(n))
  IN  [k \in 1 .. n |-> places[k] + 1]

\* The tie orders the build may use for an array of scores.
TieOrders(scores) ==
  LET n == Len(scores)
  IN  IF n \in DOMAIN tie THEN {tie[n]}
      ELSE IF HasTies(scores) THEN Perms(n)
      ELSE {Identity(n)}

----------------------------------------------------------------------------
(* The calls. *)

Edges == ((0 - 1) .. MaxIdx) \X ((0 - 1) .. MaxIdx)

\* A graph of the pipeline's corpora holds no edge or one.
Graphs == {{}} \cup {{e} : e \in Edges}

\* Corpora of the pipeline: no annotator, one annotator, or a second one who
\* says nothing or prefers object 0 to object 1 (the docstring's first edge).
Corpora == {<<>>} \cup {<<g>> : g \in Graphs}
             \cup {<<g, k>> : g \in Graphs, k \in {{}, {<<1, 0>>}}}

\* <<preference_accuracy, regularization_strength>>, in tenths: the defaults
\* (0.9, 0.5) and a spammer's accuracy with a stronger regularization.
Hyperparameters == {<<9, 5>>, <<5, 10>>}

Arguments == <<graphs, standardize_bt_scores, preference_accuracy,
               regularization_strength, api>>

NoValue == [err |-> "unset", L |-> <<>>, R |-> <<>>, l |-> 0]

Outcome(e, ret, scores, z, r) ==
  [err |-> e, returned |-> ret, scores |-> scores, zscores |-> z, ranks |-> r]

\* The call is entered: the arguments are bound, the locals are fresh.
Enter(g, std, h, l, a) ==
  /\ graphs = g
  /\ standardize_bt_scores = std
  /\ preference_accuracy = h
  /\ regularization_strength = l
  /\ api = a
  /\ args = <<g, std, h, l, a>>
  /\ err = "none"
  /\ num_vertices = 0
  /\ initial_guess = <<>>
  /\ shape = 0
  /\ nit = 0
  /\ x = <<>>
  /\ success = TRUE
  /\ s_arg = <<>>
  /\ fval = NoValue
  /\ raw_bt_scores = <<>>
  /\ returned = "none"
  /\ zscores = <<>>
  /\ ranks = <<>>

\* Corpora the objective is evaluated on: objects 0..MaxIdx, one or two
\* annotators, at most two edges each, at least one edge in all.
ObjEdges == {e \in (0 .. MaxIdx) \X (0 .. MaxIdx) : e[1] # e[2]}

ObjGraphs == {{}} \cup {{a, b} : a \in ObjEdges, b \in ObjEdges}

ObjCorpora == {c \in {<<g>> : g \in ObjGraphs} \cup
                     {<<g, k>> : g \in ObjGraphs, k \in ObjGraphs} : HasEdges(c)}

ObjGrid == (0 - 1) .. ObjGridMax

ObjVectors(n) == [1 .. n -> ObjGrid]

\* Corpora of the caller who calls twice: 0 preferred to 1, and the reverse.
CallCorpora == {<<{<<1, 0>>}>>, <<{<<0, 1>>}>>}

\* estimate_bt_ranks passes standardize_bt_scores=False (line 42).
Modes == {<<"scores", FALSE>>, <<"scores", TRUE>>, <<"ranks", FALSE>>}

Init ==
  /\ \E g \in Corpora, hl \in Hyperparameters, m \in Modes :
       Enter(g, m[2], hl[1], hl[2], m[1])
  /\ pc = "call"
  /\ memo = {}
  /\ tie = <<>>
  /\ calls = 1
  /\ history = {}

inputs == <<graphs, standardize_bt_scores, preference_accuracy,
            regularization_strength, api, args>>

\* The call leaves with an exception.
Raise(e) ==
  /\ err' = e
  /\ pc' = "raised"
  /\ history' = history \cup
       {[in |-> args, after |-> Arguments,
         out |-> Outcome(e, "none", <<>>, <<>>, <<>>)]}

\* Lines 85-86: size the score vector; max() of no edges raises ValueError.
Size ==
  /\ pc = "call"
  /\ IF HasEdges(graphs)
     THEN /\ num_vertices' = NumVertices(graphs)
          /\ initial_guess' = InitialGuess(NumVertices(graphs))
          /\ pc' = "minimize"
          /\ UNCHANGED <<err, history>>
     ELSE /\ Raise("ValueError")
          /\ UNCHANGED <<num_vertices, initial_guess>>
  /\ UNCHANGED <<inputs, shape, nit, x, success, s_arg, fval, raw_bt_scores, returned, zscores,
                 ranks, memo, tie, calls>>

\* optimize.minimize starts with xk = x0: fun(x0) is evaluated first, and what
\* it raises leaves the call.
StartMinimize ==
  /\ pc = "minimize"
  /\ \A m \in memo : m.key # MinimizeKey
  /\ LET f == negative_log_likelihood(graphs, preference_accuracy,
                                      regularization_strength, initial_guess)
     IN  /\ shape' = Len(initial_guess)
         /\ s_arg' = initial_guess
         /\ fval' = f
         /\ nit' = 0
         /\ IF f.err = "none"
            THEN /\ pc' = "iterating"
                 /\ UNCHANGED <<err, history>>
            ELSE Raise(f.err)
  /\ UNCHANGED <<inputs, num_vertices, initial_guess, x, success, raw_bt_scores, returned,
                 zscores, ranks, memo, tie, calls>>

\* One BFGS iteration: xk becomes xk + alpha*pk, an array of the same shape.
\* Which array is the library's business and nothing reads it before
\* optimize.minimize returns, so its entries are drawn there.
Iterate ==
  /\ pc = "iterating"
  /\ MayIterate(nit)
  /\ nit' = nit + 1
  /\ UNCHANGED <<inputs, pc, err, num_vertices, initial_guess, shape, x, success, s_arg, fval,
                 raw_bt_scores, returned, zscores, ranks, memo, tie, calls, history>>

\* The loop of the optimizer ends: converged, or stopped by the cap.  Its
\* counter k ends with it.
Stop ==
  /\ pc = "iterating"
  /\ success' = Success(nit)
  /\ nit' = 0
  /\ pc' = "stopped"
  /\ UNCHANGED <<inputs, err, num_vertices, initial_guess, shape, x, s_arg, fval,
                 raw_bt_scores, returned, zscores, ranks, memo, tie, calls, history>>

\* optimize.minimize returns its last iterate as OptimizeResult.x.
Minimized ==
  /\ pc = "stopped"
  /\ \E v \in Vectors(shape) :
       /\ x' = v
       /\ s_arg' = v
       /\ fval' = negative_log_likelihood(graphs, preference_accuracy,
                                          regularization_strength, v)
       /\ memo' = memo \cup {[key |-> MinimizeKey, x |-> v, success |-> success]}
  /\ IF ResultError(success) = "none"
     THEN /\ pc' = "minimized"
          /\ UNCHANGED <<err, history>>
     ELSE Raise(ResultError(success))
  /\ UNCHANGED <<inputs, num_vertices, initial_guess, shape, nit, success,
                 raw_bt_scores, returned, zscores, ranks, tie, calls>>

\* optimize.minimize is a function of its arguments: asked again, it answers
\* as it did.
Replay ==
  /\ pc = "minimize"
  /\ \E m \in memo :
       /\ m.key = MinimizeKey
       /\ x' = m.x
       /\ success' = m.success
       /\ shape' = Len(m.x)
       /\ s_arg' = m.x
       /\ fval' = negative_log_likelihood(graphs, preference_accuracy,
                                          regularization_strength, m.x)
  /\ pc' = "minimized"
  /\ UNCHANGED <<inputs, err, num_vertices, initial_guess, nit, raw_bt_scores,
                 returned, zscores, ranks, memo, tie, calls, history>>

\* Lines 90 and 94-97, and line 44 for estimate_bt_ranks: the result.
Return ==
  /\ pc = "minimized"
  /\ LET raw == NpExp(x)
     IN  /\ raw_bt_scores' = raw
         /\ IF api = "ranks"
            THEN \E p \in TieOrders(raw) :
                   /\ ranks' = RanksOf(raw, p)
                   /\ tie' = IF HasTies(raw) /\ Len(raw) \notin DOMAIN tie
                             THEN [n \in DOMAIN tie \cup {Len(raw)} |->
                                     IF n = Len(raw) THEN p ELSE tie[n]]
                             ELSE tie
                   /\ returned' = "ranks"
                   /\ UNCHANGED zscores
            ELSE /\ zscores' = IF standardize_bt_scores THEN zscore(raw) ELSE zscores
                 /\ returned' = IF standardize_bt_scores THEN "zscore" ELSE "raw"
                 /\ UNCHANGED <<ranks, tie>>
  /\ pc' = "done"
  /\ history' = history \cup
       {[in |-> args, after |-> Arguments,
         out |-> Outcome(err, returned', raw_bt_scores', zscores', ranks')]}
  /\ UNCHANGED <<inputs, err, num_vertices, initial_guess, shape, nit, x, success,
                 s_arg, fval, memo, calls>>

\* The caller calls again, with the same arguments or with others.
Recall ==
  /\ pc \in {"done", "raised"}
  /\ calls = 1
  /\ calls' = 2
  /\ \E g \in CallCorpora, m \in Modes :
       /\ graphs' = g
       /\ standardize_bt_scores' = m[2]
       /\ api' = m[1]
       /\ args' = <<g, m[2], preference_accuracy, regularization_strength, m[1]>>
  /\ pc' = "call"
  /\ err' = "none"
  /\ num_vertices' = 0
  /\ initial_guess' = <<>>
  /\ shape' = 0
  /\ nit' = 0
  /\ x' = <<>>
  /\ success' = TRUE
  /\ s_arg' = <<>>
  /\ fval' = NoValue
  /\ raw_bt_scores' = <<>>
  /\ returned' = "none"
  /\ zscores' = <<>>
  /\ ranks' = <<>>
  /\ UNCHANGED <<preference_accuracy, regularization_strength, memo, tie, history>>

\* negative_log_likelihood is called with a score vector (lines 75-83).
Evaluate ==
  /\ pc = "objective"
  /\ \E v \in ObjVectors(NumVertices(graphs)) :
       /\ s_arg' = v
       /\ fval' = negative_log_likelihood(graphs, preference_accuracy,
                                          regularization_strength, v)
  /\ pc' = "evaluated"
  /\ UNCHANGED <<inputs, err, num_vertices, initial_guess, shape, nit, x, success,
                 raw_bt_scores, returned, zscores, ranks, memo, tie, calls, history>>

Next == Size \/ StartMinimize \/ Iterate \/ Stop \/ Minimized \/ Return

Spec == Init /\ [][Next]_vars

\* The objective alone: a corpus and hyperparameters are captured, then the
\* closure is applied to a score vector.
InitObj ==
  /\ \E g \in ObjCorpora, hl \in Hyperparameters : Enter(g, FALSE, hl[1], hl[2], "scores")
  /\ pc = "objective"
  /\ memo = {}
  /\ tie = <<>>
  /\ calls = 1
  /\ history = {}

SpecObj == InitObj /\ [][Evaluate]_vars

\* A caller who calls twice, in one process.
InitCalls ==
  /\ \E g \in CallCorpora, m \in Modes : Enter(g, m[2], 9, 5, m[1])
  /\ pc = "call"
  /\ memo = {}
  /\ tie = <<>>
  /\ calls = 1
  /\ history = {}

NextCalls == Next \/ Replay \/ Recall

SpecCalls == InitCalls /\ [][NextCalls]_vars

----------------------------------------------------------------------------
(* The properties. *)

\* The objects that occur in the edges of a corpus.
Objects(g) == UNION {{o[2][1], o[2][2]} : o \in EdgeOccurrences(g)}

\* A valid corpus: at least one edge, no negative index.
Valid(g) == Objects(g) # {} /\ \A i \in Objects(g) : i >= 0

\* N of a corpus: one plus the greatest index of its edges.
ObjectCount(g) == 1 + (CHOOSE m \in Objects(g) : \A i \in Objects(g) : i <= m)

Finished == pc \in {"done", "raised"}

C2_RanksFollowScores ==
  (pc = "done" /\ returned = "ranks" /\ Valid(graphs)) =>
     \A i, j \in 1 .. Len(ranks) :
        i # j =>
          (ranks[i] < ranks[j] <=>
             \/ RatLess(raw_bt_scores[j], raw_bt_scores[i])
             \/ (raw_bt_scores[i] = raw_bt_scores[j] /\ i < j))

\* C3: for a valid corpus the initial guess, the optimizer's iterates and the
\* raw scores returned all have N entries, N one plus the greatest index, and
\* the scores are strictly positive.
C3_ScoreVectorHasNEntries ==
  Valid(graphs) =>
     /\ pc # "call" => Len(initial_guess) = ObjectCount(graphs)
     /\ pc \in {"iterating", "stopped", "minimized", "done"} =>
          shape = ObjectCount(graphs)
     /\ pc \in {"minimized", "done"} => Len(x) = ObjectCount(graphs)
     /\ (pc = "done" /\ returned = "raw") =>
          /\ Len(raw_bt_scores) = ObjectCount(graphs)
          /\ \A k \in 1 .. Len(raw_bt_scores) : RatLess(<<0, 1>>, raw_bt_scores[k])

C3_Witness ==
  /\ pc = "done" /\ returned = "raw" /\ Valid(graphs)
  /\ \E i \in 0 .. (ObjectCount(graphs) - 1) : i \notin Objects(graphs)

\* C4: a corpus without edges fails with the named EmptyCorpus error, before
\* the optimizer is invoked and without a result.
C4_EmptyCorpusIsNamed ==
  (Finished /\ ~HasEdges(graphs)) =>
     /\ err = "EmptyCorpus"
     /\ returned = "none"
     /\ fval.err = "unset"

\* C5: a corpus with a negative index is rejected with InvalidEdge before the
\* objective is evaluated; no score vector is indexed and nothing is returned.
C5_NegativeIndexIsRejected ==
  (Finished /\ \E i \in Objects(graphs) : i < 0) =>
     /\ err = "InvalidEdge"
     /\ returned = "none"
     /\ fval.err = "unset"

\* C6: for a valid corpus the optimizer runs at most 99 iterations and the call
\* never raises; stopped by the cap or not, the returned iterate is
\* exponentiated and returned (or ranked).
C6_CapIsNotAnError ==
  /\ nit <= 99
  /\ Valid(graphs) =>
       /\ pc # "raised" /\ err = "none"
       /\ pc = "done" =>
            /\ returned # "none"
            /\ Len(raw_bt_scores) = Len(x)
            /\ \A k \in 1 .. Len(x) : raw_bt_scores[k] = exp(x[k])
            /\ returned = "ranks" => Len(ranks) = Len(x)

C6_Witness ==
  /\ pc = "done" /\ Valid(graphs) /\ ~success
  /\ returned \in {"raw", "ranks"}

\* C7 as stated: the optimization starts from the all-zero vector.
C7_InitialGuessAllZero ==
  (pc \in {"minimize", "iterating"} /\ HasEdges(graphs)) =>
     \A k \in 1 .. Len(initial_guess) : initial_guess[k] = 0

\* C7, amended: whatever the edges and the hyperparameters, the optimization
\* starts from N copies of 1.0, and that vector is the first argument of the
\* objective.
C7_InitialGuessAllOnes ==
  (pc \in {"minimize", "iterating"} /\ HasEdges(graphs)) =>
     /\ Len(initial_guess) = (IF num_vertices > 0 THEN num_vertices ELSE 0)
     /\ \A k \in 1 .. Len(initial_guess) : initial_guess[k] = 1
     /\ pc = "iterating" => s_arg = initial_guess

C7_Witness ==
  /\ pc = "iterating"
  /\ num_vertices >= 2
  /\ preference_accuracy # 9
  /\ s_arg = <<1, 1>>

Dist(a, b) == Abs(a - b)

\* C8 as stated: the summand of R for an object is symmetric about 0, greatest
\* at 0 and smaller the farther the log-score is from 0.
C8_PenaltyCentredAtZero ==
  pc = "evaluated" =>
     \A k \in 1 .. Len(s_arg), t \in ObjGrid :
        /\ Dist(t, 0) = Dist(s_arg[k], 0) => RTermOf[t] = RTermOf[s_arg[k]]
        /\ Dist(t, 0) > Dist(s_arg[k], 0) => LogLess(RTermOf[t], RTermOf[s_arg[k]])

\* C8, amended: the summand of R for an object is symmetric about 1.0 (the
\* log-score s_vo of the virtual object), greatest exactly at 1.0 and strictly
\* smaller the farther the log-score is from 1.0; R has one summand per object
\* and none for the virtual object.
C8_PenaltyCentredAtOne ==
  pc = "evaluated" =>
     /\ fval.err = "none"
     /\ BagSize(fval.R) = Len(s_arg)
     /\ Len(s_arg) = ObjectCount(graphs)
     /\ \A k \in 1 .. Len(s_arg) :
          /\ RTermOf[s_arg[k]] \in DOMAIN fval.R
          /\ \A t \in ObjGrid :
               /\ Dist(t, 1) = Dist(s_arg[k], 1) => RTermOf[t] = RTermOf[s_arg[k]]
               /\ Dist(t, 1) > Dist(s_arg[k], 1) =>
                    LogLess(RTermOf[t], RTermOf[s_arg[k]])

C8_Witness ==
  /\ pc = "evaluated"
  /\ \E k \in 1 .. Len(s_arg) : s_arg[k] = 0
  /\ \E k \in 1 .. Len(s_arg) : s_arg[k] = 2

EdgeTerm(h, s_i, s_j) ==
  [antilog |->
     Rat(h * Pow(EBase, s_i + 1) + (10 - h) * Pow(EBase, s_j + 1),
         10 * (Pow(EBase, s_i + 1) + Pow(EBase, s_j + 1)))]

EdgeTermAt(o) ==
  EdgeTerm(preference_accuracy, Item(s_arg, o[2][2]), Item(s_arg, o[2][1]))

\* s with the entries of the objects a and b exchanged.
Exchange(v, a, b) ==
  [k \in 1 .. Len(v) |-> IF k = a + 1 THEN v[b + 1] ELSE IF k = b + 1 THEN v[a + 1] ELSE v[k]]

RECURSIVE EdgeCount(_)
EdgeCount(g) == IF g = <<>> THEN 0 ELSE Cardinality(Head(g)) + EdgeCount(Tail(g))

\* C10: L has one summand per edge of each annotator's graph, the summand of
\* (j, i) being log10(h bt(s_i, s_j) + (1 - h) bt(s_j, s_i)) with i preferred;
\* an edge two annotators share counts twice, contradictory edges both count
\* and raise nothing, and with (j, i) and (i, j) once each the objective is the
\* same after the scores of i and j are exchanged.
C10_OneTermPerEdge ==
  pc = "evaluated" =>
     /\ fval.err = "none"
     /\ BagSize(fval.L) = EdgeCount(graphs)
     /\ \A v \in DOMAIN fval.L \cup {EdgeTermAt(o) : o \in EdgeOccurrences(graphs)} :
          /\ v \in DOMAIN fval.L
          /\ fval.L[v] = Cardinality({o \in EdgeOccurrences(graphs) : EdgeTermAt(o) = v})
     /\ \A a, b \in Objects(graphs) :
          (/\ a # b
           /\ {o[2] : o \in EdgeOccurrences(graphs)} = {<<a, b>>, <<b, a>>}
           /\ EdgeCount(graphs) = 2) =>
             negative_log_likelihood(graphs, preference_accuracy,
                                     regularization_strength,
                                     Exchange(s_arg, a, b)) = fval

C10_Witness ==
  /\ pc = "evaluated"
  /\ Len(graphs) = 2
  /\ graphs[1] = {<<1, 0>>, <<0, 1>>}
  /\ graphs[2] = {<<1, 0>>}
  /\ s_arg[1] # s_arg[2]
  /\ preference_accuracy = 9
  /\ \E v \in DOMAIN fval.L : fval.L[v] = 2

====
